---- MODULE Spec2Model ----
(***************************************************************************)
(* The tool-calling loop of src/src/main.rs: main() alternates between a   *)
(* chat-completion call and the dispatch of the tool calls of the answer,  *)
(* appending an assistant message and the tool messages to the request.    *)
(*                                                                         *)
(* Texts are TLC strings.  An Option<T> is a sequence of length 0 (None)   *)
(* or 1 (Some).  A Result is a record with the field ok.  The diagnostic   *)
(* lines written with eprintln! are not part of the model.                 *)
(***************************************************************************)
EXTENDS Naturals, Sequences, FiniteSets, TLC

(***************************************************************************)
(* Bounds of the model.                                                    *)
(***************************************************************************)
\* model calls (loop iterations) of one run
MaxModelCalls == 2
\* tool calls of one run, over all responses
MaxToolCalls == 2
\* tool calls of one response
MaxCallsPerTurn == 2

(***************************************************************************)
(* Option and Result.                                                      *)
(***************************************************************************)
None == <<>>
Some(x) == <<x>>
IsSome(o) == Len(o) = 1
Unwrap(o) == o[1]

Ok(v) == [ok |-> TRUE, v |-> v]
Err(e) == [ok |-> FALSE, e |-> e]

(***************************************************************************)
(* serde_json::Value, as far as main.rs uses it.                           *)
(***************************************************************************)
JNull == [t |-> "null"]
JString(s) == [t |-> "string", s |-> s]
JNumber(n) == [t |-> "number", n |-> n]
JArray == [t |-> "array"]
JObject(m) == [t |-> "object", m |-> m]

\* args["key"]: Null when args is not an object or has no such key
Index(v, key) ==
  IF v.t = "object" /\ key \in DOMAIN v.m THEN v.m[key] ELSE JNull

\* Value::as_str
as_str(v) == IF v.t = "string" THEN Some(v.s) ELSE None

\* json!(s) of a string
json(s) == JString(s)

\* Value::to_string of a string value: the JSON text, in double quotes.  The
\* texts of the model hold no character that JSON escapes.
to_string(v) ==
  IF v.t = "string" THEN "\"" \o v.s \o "\"" ELSE "null"

(***************************************************************************)
(* The files the tools touch.  A file system maps a path to None (no such  *)
(* file) or Some(contents).                                                *)
(***************************************************************************)
GoodPath == "f1"
\* a path in a directory that does not exist: File::create fails on it
BadPath == "nodir/f2"
Paths == {GoodPath, BadPath}
Creatable == {GoodPath}

OldContent == "old"
NewContent == "new"

(***************************************************************************)
(* Raw argument texts of tool calls and what serde_json::from_str makes of *)
(* them.                                                                   *)
(***************************************************************************)
ArgsMalformed == "{file_path"
ArgsEmpty == "{}"
ArgsNotObject == "[]"
ArgsRead == "{\"file_path\":\"f1\"}"
ArgsWrite == "{\"file_path\":\"f1\",\"content\":\"new\"}"
ArgsWriteBadPath == "{\"file_path\":\"nodir/f2\",\"content\":\"new\"}"
ArgsWrongType == "{\"file_path\":7,\"content\":\"new\"}"
ArgsNoContent == "{\"file_path\":\"nodir/f2\"}"
ArgsExit1 == "{\"command\":\"exit 1\"}"
ArgsRm == "{\"command\":\"echo hi; rm f1\"}"

ArgumentTexts ==
  {ArgsMalformed, ArgsEmpty, ArgsNotObject, ArgsRead, ArgsWrite,
   ArgsWriteBadPath, ArgsWrongType, ArgsNoContent, ArgsExit1, ArgsRm}

from_str(text) ==
  CASE text = ArgsEmpty -> Ok(JObject(<<>>))
    [] text = ArgsNotObject -> Ok(JArray)
    [] text = ArgsRead -> Ok(JObject("file_path" :> JString(GoodPath)))
    [] text = ArgsWrite ->
         Ok(JObject("file_path" :> JString(GoodPath)
                    @@ "content" :> JString(NewContent)))
    [] text = ArgsWriteBadPath ->
         Ok(JObject("file_path" :> JString(BadPath)
                    @@ "content" :> JString(NewContent)))
    [] text = ArgsWrongType ->
         Ok(JObject("file_path" :> JNumber(7)
                    @@ "content" :> JString(NewContent)))
    [] text = ArgsNoContent -> Ok(JObject("file_path" :> JString(BadPath)))
    [] text = ArgsExit1 -> Ok(JObject("command" :> JString("exit 1")))
    [] text = ArgsRm -> Ok(JObject("command" :> JString("echo hi; rm f1")))
    [] OTHER -> Err("key must be a string at line 1 column 2")

(***************************************************************************)
(* The environment of one tool execution: "ok", or "fault" when the        *)
(* operating system refuses the operation (permission denied on a read,    *)
(* a full disk on write_all, no bash to spawn).                            *)
(***************************************************************************)
Envs == {"ok", "fault"}

\* the run starts with one file
InitialFiles ==
  [p \in Paths |-> IF p = GoodPath THEN Some(OldContent) ELSE None]

\* std::fs::read_to_string behind read_file_to_string
read_file_to_string(files, path, env) ==
  IF path \notin Paths \/ ~IsSome(files[path])
  THEN Err("No such file or directory (os error 2)")
  ELSE IF env = "fault"
       THEN Err("Permission denied (os error 13)")
       ELSE Ok(Unwrap(files[path]))

\* variant: the file is opened for appending, not truncated
write_to_file_appending(files, path, contents, env) ==
  IF path \notin Creatable
  THEN [res |-> Err("No such file or directory (os error 2)"), fs |-> files]
  ELSE IF env = "fault"
       THEN [res |-> Err("No space left on device (os error 28)"), fs |-> files]
       ELSE [res |-> Ok("unit"),
             fs |-> [files EXCEPT ![path] =
                       IF IsSome(files[path])
                       THEN Some(Unwrap(files[path]) \o contents)
                       ELSE Some(contents)]]

\* File::create truncates, write_all writes everything or fails
write_to_file(files, path, contents, env) ==
  IF path \notin Creatable
  THEN [res |-> Err("No such file or directory (os error 2)"), fs |-> files]
  ELSE IF env = "fault"
       THEN [res |-> Err("No space left on device (os error 28)"),
             fs |-> [files EXCEPT ![path] = Some("")]]
       ELSE [res |-> Ok("unit"), fs |-> [files EXCEPT ![path] = Some(contents)]]

\* what bash -c command does: its output streams, exit status and files
BashRun(files, command) ==
  CASE command = "echo hi; rm f1" ->
         IF IsSome(files[GoodPath])
         THEN [stdout |-> "hi", stderr |-> "", status |-> 0,
               fs |-> [files EXCEPT ![GoodPath] = None]]
         ELSE [stdout |-> "hi", stderr |-> "rm: f1: No such file", status |-> 1,
               fs |-> files]
    [] command = "exit 1" ->
         [stdout |-> "", stderr |-> "", status |-> 1, fs |-> files]
    [] OTHER ->
         [stdout |-> "", stderr |-> "bash: command not found", status |-> 127,
          fs |-> files]

\* variant: a non-zero exit status is turned into an error
execute_bash_command_checking_status(files, command, env) ==
  IF env = "fault"
  THEN [res |-> Err("No such file or directory (os error 2)"), fs |-> files]
  ELSE LET output == BashRun(files, command)
       IN IF output.status # 0
          THEN [res |-> Err("command failed"), fs |-> output.fs]
          ELSE [res |-> Ok(output.stdout \o " " \o output.stderr),
                fs |-> output.fs]

execute_bash_command(files, command, env) ==
  IF env = "fault"
  THEN [res |-> Err("No such file or directory (os error 2)"), fs |-> files]
  ELSE LET output == BashRun(files, command)
       IN [res |-> Ok(output.stdout \o " " \o output.stderr),
           fs |-> output.fs]

(***************************************************************************)
(* The three tool functions.  Each returns the Result of the function,     *)
(* the function_responses vector and the files as the call leaves them.    *)
(***************************************************************************)
Pushed(function_responses, tool_call, content) ==
  Append(function_responses, [tool_call |-> tool_call, content |-> content])

\* variant: reading a file empties it
call_read_tool_consuming(tool_call, args, function_responses, files, env) ==
  LET file_path == as_str(Index(args, "file_path"))
  IN IF ~IsSome(file_path)
     THEN [res |-> Err("Should have a file_path argument."),
           function_responses |-> function_responses, fs |-> files]
     ELSE LET file_contents == read_file_to_string(files, Unwrap(file_path), env)
          IN IF ~file_contents.ok
             THEN [res |-> file_contents,
                   function_responses |-> function_responses, fs |-> files]
             ELSE [res |-> Ok("unit"),
                   function_responses |->
                     Pushed(function_responses, tool_call, json(file_contents.v)),
                   fs |-> [files EXCEPT ![Unwrap(file_path)] = Some("")]]

call_read_tool(tool_call, args, function_responses, files, env) ==
  LET file_path == as_str(Index(args, "file_path"))
  IN IF ~IsSome(file_path)
     THEN [res |-> Err("Should have a file_path argument."),
           function_responses |-> function_responses, fs |-> files]
     ELSE LET file_contents == read_file_to_string(files, Unwrap(file_path), env)
          IN IF ~file_contents.ok
             THEN [res |-> file_contents,
                   function_responses |-> function_responses, fs |-> files]
             ELSE [res |-> Ok("unit"),
                   function_responses |->
                     Pushed(function_responses, tool_call, json(file_contents.v)),
                   fs |-> files]

call_write_tool(tool_call, args, function_responses, files, env) ==
  LET file_path == as_str(Index(args, "file_path"))
      content == as_str(Index(args, "content"))
  IN IF ~IsSome(file_path)
     THEN [res |-> Err("Should have a file_path argument."),
           function_responses |-> function_responses, fs |-> files]
     ELSE IF ~IsSome(content)
     THEN [res |-> Err("Should have a content argument."),
           function_responses |-> function_responses, fs |-> files]
     ELSE LET written == write_to_file(files, Unwrap(file_path), Unwrap(content), env)
          IN IF ~written.res.ok
             THEN [res |-> written.res,
                   function_responses |-> function_responses, fs |-> written.fs]
             ELSE [res |-> Ok("unit"),
                   function_responses |->
                     Pushed(function_responses, tool_call, json(Unwrap(content))),
                   fs |-> written.fs]

call_bash_tool(tool_call, args, function_responses, files, env) ==
  LET command == as_str(Index(args, "command"))
  IN IF ~IsSome(command)
     THEN [res |-> Err("Should have a command argument."),
           function_responses |-> function_responses, fs |-> files]
     ELSE LET output == execute_bash_command(files, Unwrap(command), env)
          IN IF ~output.res.ok
             THEN [res |-> output.res,
                   function_responses |-> function_responses, fs |-> output.fs]
             ELSE [res |-> Ok("unit"),
                   function_responses |->
                     Pushed(function_responses, tool_call, json(output.res.v)),
                   fs |-> output.fs]

\* the _ arm of the match on the tool name
unknown_tool(tool_call, function_responses, files) ==
  [res |-> Ok("unit"),
   function_responses |->
     Pushed(function_responses, tool_call,
            json("Unknown tool: " \o tool_call.name)),
   fs |-> files]

\* the match on the tool name
MatchName(tool_call, args, function_responses, files, env) ==
  CASE tool_call.name = "Read" ->
         call_read_tool(tool_call, args, function_responses, files, env)
    [] tool_call.name = "Write" ->
         call_write_tool(tool_call, args, function_responses, files, env)
    [] tool_call.name = "Bash" ->
         call_bash_tool(tool_call, args, function_responses, files, env)
    [] OTHER -> unknown_tool(tool_call, function_responses, files)

\* one pass of the body of for tool_call_enum in tool_calls
DispatchOne(tool_call, function_responses, files, env) ==
  IF tool_call.kind # "function"
  THEN [res |-> Ok("skipped"),
        function_responses |-> function_responses, fs |-> files]
  ELSE LET args == from_str(tool_call.arguments)
       IN IF ~args.ok
          THEN [res |-> args,
                function_responses |-> function_responses, fs |-> files]
          ELSE MatchName(tool_call, args.v, function_responses, files, env)

(***************************************************************************)
(* Messages of the request.                                                *)
(***************************************************************************)
NoId == ""

UserMessage(text) ==
  [role |-> "user", content |-> Some(text), tool_calls |-> None,
   tool_call_id |-> NoId]

AssistantMessage(calls) ==
  [role |-> "assistant", content |-> None, tool_calls |-> Some(calls),
   tool_call_id |-> NoId]

ToolMessage(id, text) ==
  [role |-> "tool", content |-> Some(text), tool_calls |-> None,
   tool_call_id |-> id]

\* variant: the tool messages come out in the reverse order of the responses
append_tool_responses_reversed(messages, function_responses) ==
  LET n == Len(function_responses)
      tool_calls == [i \in 1..n |-> function_responses[i].tool_call]
      tool_messages ==
        [i \in 1..n |->
           ToolMessage(function_responses[n + 1 - i].tool_call.id,
                       to_string(function_responses[n + 1 - i].content))]
  IN (messages \o <<AssistantMessage(tool_calls)>>) \o tool_messages

\* variant: the tool messages are pushed before the assistant message
append_tool_responses_tools_first(messages, function_responses) ==
  LET n == Len(function_responses)
      tool_calls == [i \in 1..n |-> function_responses[i].tool_call]
      tool_messages ==
        [i \in 1..n |->
           ToolMessage(function_responses[i].tool_call.id,
                       to_string(function_responses[i].content))]
  IN (messages \o tool_messages) \o <<AssistantMessage(tool_calls)>>

\* variant: the messages of the earlier turns are replaced, not extended
append_tool_responses_replacing(messages, function_responses) ==
  LET n == Len(function_responses)
      tool_calls == [i \in 1..n |-> function_responses[i].tool_call]
      tool_messages ==
        [i \in 1..n |->
           ToolMessage(function_responses[i].tool_call.id,
                       to_string(function_responses[i].content))]
  IN (<<messages[1]>> \o <<AssistantMessage(tool_calls)>>) \o tool_messages

\* variant: the tool message of the last response is left out
append_tool_responses_dropping_last(messages, function_responses) ==
  LET n == Len(function_responses)
      tool_calls == [i \in 1..n |-> function_responses[i].tool_call]
      tool_messages ==
        [i \in 1..(n - 1) |->
           ToolMessage(function_responses[i].tool_call.id,
                       to_string(function_responses[i].content))]
  IN (messages \o <<AssistantMessage(tool_calls)>>) \o tool_messages

append_tool_responses(messages, function_responses) ==
  LET tool_calls ==
        [i \in 1..Len(function_responses) |-> function_responses[i].tool_call]
      assistant_messages == AssistantMessage(tool_calls)
      tool_messages ==
        [i \in 1..Len(function_responses) |->
           ToolMessage(function_responses[i].tool_call.id,
                       to_string(function_responses[i].content))]
  IN (messages \o <<assistant_messages>>) \o tool_messages

(***************************************************************************)
(* What the chat-completion endpoint may answer.                           *)
(***************************************************************************)
ToolNames == {"Read", "Write", "Bash", "Foo"}

\* the argument texts each tool name is called with
ArgumentsFor(n) ==
  CASE n = "Read" -> {ArgsRead, ArgsEmpty, ArgsMalformed}
    [] n = "Write" -> {ArgsWrite, ArgsWriteBadPath, ArgsNoContent, ArgsWrongType}
    [] n = "Bash" -> {ArgsExit1, ArgsRm, ArgsNotObject}
    [] OTHER -> {ArgsEmpty, ArgsMalformed}

FunctionCalls ==
  {[kind |-> "function", name |-> c[1], arguments |-> c[2]] :
     c \in {d \in ToolNames \X ArgumentTexts : d[2] \in ArgumentsFor(d[1])}}

\* a tool call of the other variant of ChatCompletionMessageToolCalls
CustomCalls == {[kind |-> "custom", name |-> "grep", arguments |-> "x"]}

CallId(i) == "call_" \o ToString(i)

\* the ids of the tool calls of one response differ: they count up or down
IdSeqs(n) == {[i \in 1..n |-> i], [i \in 1..n |-> n + 1 - i]}

ToolCallSeqs(n) ==
  {[i \in 1..n |->
      [kind |-> calls[i].kind, id |-> CallId(ids[i]),
       name |-> calls[i].name, arguments |-> calls[i].arguments]] :
     calls \in [1..n -> FunctionCalls \cup CustomCalls], ids \in IdSeqs(n)}

FinalText == "done"

Messages(budget) ==
  {[content |-> c, tool_calls |-> t] :
     c \in {None, Some(FinalText)},
     t \in {None} \cup
           {Some(calls) :
              calls \in UNION {ToolCallSeqs(n) : n \in 0..budget}}}

TransportError == [ok |-> FALSE, choices |-> <<>>]

Responses(budget) ==
  {TransportError, [ok |-> TRUE, choices |-> <<>>]}
  \cup {[ok |-> TRUE, choices |-> <<[message |-> m]>>] : m \in Messages(budget)}

Min(a, b) == IF a < b THEN a ELSE b

(***************************************************************************)
(* The state of a run.                                                     *)
(***************************************************************************)
VARIABLES
  pc,                 \* where main() is
  messages,           \* request.messages
  sent,               \* the message lists of the model calls made so far
  received,           \* the answers to them
  idx,                \* position of the for loop in tool_calls
  function_responses, \* the vector of the same name
  files,              \* the file system
  stdout,             \* what println! has written
  error,              \* the Err that main() returned
  executed,           \* the tool calls whose arm of the match has returned Ok,
                      \* each with the response pushed and the files around it
  request,            \* the fields of request other than messages
  sent_with           \* those fields in the model calls made so far

vars ==
  <<pc, messages, sent, received, idx, function_responses, files, stdout,
    error, executed, request, sent_with>>

\* ChatCompletionTool built by tool_definition_factory; the parameters are
\* json!(include_str!(file)), a JSON string holding the text of the file
tool_definition_factory(name, description, parameters) ==
  [name |-> name, description |-> description, parameters |-> parameters,
   strict |-> TRUE]

read_tool ==
  tool_definition_factory(
    "Read",
    "Read and return the contents of a file. Takes a file_path argument.",
    json("tool_definitions/read_tool_params.json"))

write_tool ==
  tool_definition_factory(
    "Write",
    "Write contents to a file. Takes file_path and content arguments.",
    json("tool_definitions/write_tool_params.json"))

bash_tool ==
  tool_definition_factory(
    "Bash",
    "Execute a shell command. Takes a command argument.",
    json("tool_definitions/bash_tool_params.json"))

tools == <<read_tool, write_tool, bash_tool>>

model == "anthropic/claude-haiku-4.5"

\* the request as CreateChatCompletionRequestArgs builds it, without messages
InitialRequest ==
  [max_completion_tokens |-> 128, model |-> model, tools |-> tools]

Prompt == "What does f1 contain?"

\* response.choices.first() of the last answer
response_message == received[Len(received)].choices[1]

\* the tool calls the for loop runs over
tool_calls ==
  IF received # <<>> /\ received[Len(received)].choices # <<>>
     /\ IsSome(response_message.message.tool_calls)
  THEN Unwrap(response_message.message.tool_calls)
  ELSE <<>>

RECURSIVE ToolCallsSoFar(_)
ToolCallsSoFar(rs) ==
  IF rs = <<>> THEN 0
  ELSE ToolCallsSoFar(Tail(rs)) +
       (IF Head(rs).choices # <<>>
           /\ IsSome(Head(rs).choices[1].message.tool_calls)
        THEN Len(Unwrap(Head(rs).choices[1].message.tool_calls)) ELSE 0)

Budget == Min(MaxCallsPerTurn, MaxToolCalls - ToolCallsSoFar(received))

Init ==
  /\ pc = "AwaitingModelResponse"
  /\ messages = <<UserMessage(Prompt)>>
  /\ sent = <<>>
  /\ received = <<>>
  /\ idx = 1
  /\ function_responses = <<>>
  /\ files = InitialFiles
  /\ stdout = <<>>
  /\ error = None
  /\ executed = <<>>
  /\ request = InitialRequest
  /\ sent_with = <<>>

\* variant: the text of the message is looked at first
Branch_text_first(message) ==
  IF IsSome(message.content) THEN "text"
  ELSE IF IsSome(message.tool_calls) THEN "tools"
  ELSE "neither"

\* the branch main() takes on the message of the first choice
Branch(message) ==
  IF IsSome(message.tool_calls) THEN "tools"
  ELSE IF IsSome(message.content) THEN "text"
  ELSE "neither"

Fail(e) ==
  /\ pc' = "Failed"
  /\ error' = Some(e)

\* client.chat().create(request.clone()) and the branch on its answer
CallModel ==
  /\ pc = "AwaitingModelResponse"
  /\ Len(sent) < MaxModelCalls
  /\ \E response \in Responses(Budget) :
       /\ sent' = Append(sent, messages)
       /\ sent_with' = Append(sent_with, request)
       /\ received' = Append(received, response)
       /\ UNCHANGED <<messages, files, executed, request>>
       /\ IF ~response.ok
          THEN Fail("error sending request") /\ UNCHANGED <<idx, function_responses, stdout>>
          ELSE IF response.choices = <<>>
          THEN Fail("No choices") /\ UNCHANGED <<idx, function_responses, stdout>>
          ELSE LET message == response.choices[1].message
               IN CASE Branch(message) = "tools" ->
                         /\ pc' = "DispatchingTools"
                         /\ idx' = 1
                         /\ function_responses' = <<>>
                         /\ UNCHANGED <<stdout, error>>
                    [] Branch(message) = "text" ->
                         /\ stdout' = Append(stdout, Unwrap(message.content))
                         /\ pc' = "Done"
                         /\ UNCHANGED <<idx, function_responses, error>>
                    [] OTHER ->
                         /\ Fail("Response had neither tool calls nor content")
                         /\ UNCHANGED <<idx, function_responses, stdout>>

\* variant: the for loop runs over tool_calls from the last to the first
DispatchToolCallReversed ==
  /\ pc = "DispatchingTools"
  /\ idx <= Len(tool_calls)
  /\ \E env \in Envs :
       LET tool_call == tool_calls[Len(tool_calls) + 1 - idx]
           r == DispatchOne(tool_call, function_responses, files, env)
       IN /\ files' = r.fs
          /\ IF r.res.ok
             THEN /\ function_responses' = r.function_responses
                  /\ idx' = idx + 1
                  /\ executed' =
                       IF r.res.v = "unit"
                       THEN Append(executed,
                                   [turn |-> Len(sent), id |-> tool_call.id,
                                    name |-> tool_call.name,
                                    arguments |-> tool_call.arguments,
                                    result |-> r.function_responses[
                                                 Len(r.function_responses)].content,
                                    before |-> files, after |-> r.fs])
                       ELSE executed
                  /\ UNCHANGED <<pc, error>>
             ELSE /\ Fail(r.res.e)
                  /\ UNCHANGED <<function_responses, idx, executed>>
  /\ UNCHANGED <<messages, sent, received, stdout, request, sent_with>>

\* variant: when a pass fails, the responses collected so far are appended
DispatchToolCallFlushing ==
  /\ pc = "DispatchingTools"
  /\ idx <= Len(tool_calls)
  /\ \E env \in Envs :
       LET tool_call == tool_calls[idx]
           r == DispatchOne(tool_call, function_responses, files, env)
       IN /\ files' = r.fs
          /\ IF r.res.ok
             THEN /\ function_responses' = r.function_responses
                  /\ idx' = idx + 1
                  /\ executed' =
                       IF r.res.v = "unit"
                       THEN Append(executed,
                                   [turn |-> Len(sent), id |-> tool_call.id,
                                    name |-> tool_call.name,
                                    arguments |-> tool_call.arguments,
                                    result |-> r.function_responses[
                                                 Len(r.function_responses)].content,
                                    before |-> files, after |-> r.fs])
                       ELSE executed
                  /\ UNCHANGED <<pc, error, messages>>
             ELSE /\ Fail(r.res.e)
                  /\ messages' = append_tool_responses(messages, function_responses)
                  /\ UNCHANGED <<function_responses, idx, executed>>
  /\ UNCHANGED <<sent, received, stdout, request, sent_with>>

\* one pass of the for loop over tool_calls
DispatchToolCall ==
  /\ pc = "DispatchingTools"
  /\ idx <= Len(tool_calls)
  /\ \E env \in Envs :
       LET tool_call == tool_calls[idx]
           r == DispatchOne(tool_call, function_responses, files, env)
       IN /\ files' = r.fs
          /\ IF r.res.ok
             THEN /\ function_responses' = r.function_responses
                  /\ idx' = idx + 1
                  /\ executed' =
                       IF r.res.v = "unit"
                       THEN Append(executed,
                                   [turn |-> Len(sent), id |-> tool_call.id,
                                    name |-> tool_call.name,
                                    arguments |-> tool_call.arguments,
                                    result |-> r.function_responses[
                                                 Len(r.function_responses)].content,
                                    before |-> files, after |-> r.fs])
                       ELSE executed
                  /\ UNCHANGED <<pc, error>>
             ELSE /\ Fail(r.res.e)
                  /\ UNCHANGED <<function_responses, idx, executed>>
  /\ UNCHANGED <<messages, sent, received, stdout, request, sent_with>>

\* variant: the responses are appended before the for loop has finished
AppendToolResponsesEarly ==
  /\ pc = "DispatchingTools"
  /\ idx >= 1
  /\ messages' = append_tool_responses(messages, function_responses)
  /\ pc' = "AwaitingModelResponse"
  /\ UNCHANGED <<sent, received, idx, function_responses, files, stdout,
                 error, executed, request, sent_with>>

\* variant: appending the responses also clears the tools of the request
AppendToolResponsesClearingTools ==
  /\ pc = "DispatchingTools"
  /\ idx > Len(tool_calls)
  /\ messages' = append_tool_responses(messages, function_responses)
  /\ request' = [request EXCEPT !.tools = <<>>]
  /\ pc' = "AwaitingModelResponse"
  /\ UNCHANGED <<sent, received, idx, function_responses, files, stdout,
                 error, executed, sent_with>>

\* the end of the for loop: append_tool_responses(&mut request, ...)
AppendToolResponses ==
  /\ pc = "DispatchingTools"
  /\ idx > Len(tool_calls)
  /\ messages' = append_tool_responses(messages, function_responses)
  /\ pc' = "AwaitingModelResponse"
  /\ UNCHANGED <<sent, received, idx, function_responses, files, stdout,
                 error, executed, request, sent_with>>

Next == CallModel \/ DispatchToolCall \/ AppendToolResponses

Spec == Init /\ [][Next]_vars

(***************************************************************************)
(* Vocabulary of the properties.                                           *)
(***************************************************************************)
IsPrefix(s, t) == Len(s) <= Len(t) /\ SubSeq(t, 1, Len(s)) = s

\* the answer to model call k carries a tool_calls field
HasToolCalls(k) ==
  /\ received[k].choices # <<>>
  /\ IsSome(received[k].choices[1].message.tool_calls)

\* the tool calls of the answer to model call k
CallsOf(k) ==
  IF HasToolCalls(k)
  THEN Unwrap(received[k].choices[1].message.tool_calls) ELSE <<>>

IsFunctionCall(c) == c.kind = "function"
FunctionCallsOf(k) == SelectSeq(CallsOf(k), IsFunctionCall)

\* the text of the answer to model call k, if it has any
TextOf(k) ==
  IF received[k].choices # <<>>
  THEN received[k].choices[1].message.content ELSE None

\* what the conversation gained between model call k and model call k + 1
Gained(k) == SubSeq(sent[k + 1], Len(sent[k]) + 1, Len(sent[k + 1]))

IsToolMessage(m) == m.role = "tool"
ToolResults(ms) == SelectSeq(ms, IsToolMessage)

\* model call k has been followed by another model call
Followed == 1..(Len(sent) - 1)

\* the run has aborted in the pass of the for loop over tool_calls[idx]
AbortedInDispatch == pc = "Failed" /\ idx <= Len(tool_calls)

KnownTools == {"Read", "Write", "Bash"}

RequiredKeys(name) ==
  CASE name = "Read" -> {"file_path"}
    [] name = "Write" -> {"file_path", "content"}
    [] name = "Bash" -> {"command"}
    [] OTHER -> {}

\* the parsed arguments of c lack a required key or hold a non-string there
LacksRequiredKey(c) ==
  /\ IsFunctionCall(c)
  /\ from_str(c.arguments).ok
  /\ \E key \in RequiredKeys(c.name) :
       ~IsSome(as_str(Index(from_str(c.arguments).v, key)))

(***************************************************************************)
(* C1.  As stated: for every answer that carries the tool calls r1..rn and *)
(* is followed by another model call, the conversation has gained exactly  *)
(* n tool messages in between, and the i-th has the id of ri.              *)
(***************************************************************************)
C1_OneResultPerRequest ==
  \A k \in Followed :
    HasToolCalls(k) =>
      LET results == ToolResults(Gained(k))
      IN /\ Len(results) = Len(CallsOf(k))
         /\ \A i \in 1..Len(results) :
              results[i].tool_call_id = CallsOf(k)[i].id

(***************************************************************************)
(* C1, amended: the same of the function tool calls f1..fn of the answer;  *)
(* a tool call of another variant gets no tool message.                    *)
(***************************************************************************)
C1_OneResultPerFunctionCall ==
  \A k \in Followed :
    HasToolCalls(k) =>
      LET results == ToolResults(Gained(k))
      IN /\ Len(results) = Len(FunctionCallsOf(k))
         /\ \A i \in 1..Len(results) :
              results[i].tool_call_id = FunctionCallsOf(k)[i].id

C1_Witness ==
  \E k \in Followed :
    /\ Len(FunctionCallsOf(k)) = 2
    /\ FunctionCallsOf(k)[1].id = CallId(2)
    /\ Len(ToolResults(Gained(k))) = 2

(***************************************************************************)
(* C2.  As stated: the pass over a function tool call whose name is none   *)
(* of Read, Write, Bash never aborts the run, whatever its arguments text, *)
(* and the response pushed for it is the "Unknown tool" message with its   *)
(* name.                                                                   *)
(***************************************************************************)
C2_UnknownToolNeverAborts ==
  /\ AbortedInDispatch =>
       ~(IsFunctionCall(tool_calls[idx])
         /\ tool_calls[idx].name \notin KnownTools)
  /\ \A i \in 1..Len(function_responses) :
       function_responses[i].tool_call.name \notin KnownTools =>
         function_responses[i].content =
           json("Unknown tool: " \o function_responses[i].tool_call.name)

(***************************************************************************)
(* C3.  As stated: the pass over a Read, Write or Bash call whose parsed   *)
(* arguments lack a required key, or hold a non-string there, does not     *)
(* abort the run.                                                          *)
(***************************************************************************)
C3_MissingArgumentNeverAborts ==
  AbortedInDispatch => ~LacksRequiredKey(tool_calls[idx])

(***************************************************************************)
(* C4.  As stated: a failure of the file or process operation of a tool    *)
(* (the arguments parse and hold every required key) does not abort the    *)
(* run.                                                                    *)
(***************************************************************************)
C4_HandlerFailureNeverAborts ==
  AbortedInDispatch =>
    ~(/\ IsFunctionCall(tool_calls[idx])
      /\ tool_calls[idx].name \in KnownTools
      /\ from_str(tool_calls[idx].arguments).ok
      /\ ~LacksRequiredKey(tool_calls[idx]))

(***************************************************************************)
(* C5.  As stated: a tool call whose arguments text is not JSON does not   *)
(* abort the run.                                                          *)
(***************************************************************************)
C5_ParseFailureNeverAborts ==
  AbortedInDispatch => from_str(tool_calls[idx].arguments).ok

(***************************************************************************)
(* C6.  In every conversation sent to the model a tool message follows an  *)
(* assistant message with only tool messages in between, and what a turn   *)
(* adds to the conversation is one assistant message followed by tool      *)
(* messages only.                                                          *)
(***************************************************************************)
C6_AssistantBeforeToolMessages ==
  \A k \in 1..Len(sent) :
    /\ \A i \in 1..Len(sent[k]) :
         sent[k][i].role = "tool" =>
           \E j \in 1..(i - 1) :
             /\ sent[k][j].role = "assistant"
             /\ \A m \in (j + 1)..i : sent[k][m].role = "tool"
    /\ k \in Followed /\ Gained(k) # <<>> =>
         /\ Gained(k)[1].role = "assistant"
         /\ \A i \in 2..Len(Gained(k)) : Gained(k)[i].role = "tool"

C6_Witness ==
  \E k \in Followed : Len(Gained(k)) = 3 /\ Gained(k)[3].role = "tool"

(***************************************************************************)
(* C7.  Every conversation sent starts with the user prompt, and the       *)
(* conversation of a model call is a prefix of that of the next one.       *)
(***************************************************************************)
C7_AppendOnly ==
  /\ messages[1] = UserMessage(Prompt)
  /\ \A k \in 1..Len(sent) :
       /\ sent[k][1] = UserMessage(Prompt)
       /\ k \in Followed => IsPrefix(sent[k], sent[k + 1])
       /\ IsPrefix(sent[k], messages)

C7_Witness ==
  /\ Len(sent) = 2
  /\ Len(sent[1]) + 3 = Len(sent[2])

(***************************************************************************)
(* C8.  As stated: an answer with text and no tool-call requests (no       *)
(* tool_calls field, or an empty list) ends the run in Done with exactly   *)
(* that text printed once; nothing is printed in another state, and        *)
(* nothing happens after Done.                                             *)
(***************************************************************************)
TextOnly(k) == IsSome(TextOf(k)) /\ Len(CallsOf(k)) = 0

C8_TextOnlyEndsRun ==
  /\ \A k \in 1..Len(received) :
       TextOnly(k) =>
         /\ k = Len(received)
         /\ pc = "Done"
         /\ stdout = <<Unwrap(TextOf(k))>>
  /\ stdout # <<>> => pc = "Done"
  /\ pc = "Done" =>
       /\ Len(stdout) = 1
       /\ TextOnly(Len(received))
       /\ messages = sent[Len(sent)]

(***************************************************************************)
(* C9.  As stated: an answer with no choice, or whose first choice has     *)
(* neither tool-call requests (no tool_calls field, or an empty list) nor  *)
(* text, ends the run in an error with nothing printed, no tool executed   *)
(* for it, nothing appended and no further model call.                     *)
(***************************************************************************)
Unusable(k) ==
  /\ received[k].ok
  /\ \/ received[k].choices = <<>>
     \/ Len(CallsOf(k)) = 0 /\ ~IsSome(TextOf(k))

C9_UnusableAnswerIsFatal ==
  \A k \in 1..Len(received) :
    Unusable(k) =>
      /\ k = Len(received)
      /\ pc = "Failed"
      /\ stdout = <<>>
      /\ messages = sent[k]
      /\ \A i \in 1..Len(executed) : executed[i].turn # k

(***************************************************************************)
(* C10.  As stated: a model call is issued only when no tool call of the   *)
(* last answer is still to be dispatched, and between two consecutive      *)
(* model calls every tool call of the earlier answer has been executed and *)
(* its result appended.                                                    *)
(***************************************************************************)
ExecutedAndAppended(k, c) ==
  /\ \E i \in 1..Len(executed) :
       executed[i].turn = k /\ executed[i].id = c.id
  /\ \E m \in 1..Len(Gained(k)) :
       /\ Gained(k)[m].role = "tool"
       /\ Gained(k)[m].tool_call_id = c.id

C10_NoOverlap ==
  /\ pc = "AwaitingModelResponse" => idx > Len(tool_calls)
  /\ \A k \in Followed :
       \A i \in 1..Len(CallsOf(k)) : ExecutedAndAppended(k, CallsOf(k)[i])

(***************************************************************************)
(* C10, amended: the same of every function tool call of the earlier       *)
(* answer; a tool call of another variant is passed over, neither executed *)
(* nor answered.                                                           *)
(***************************************************************************)
C10_NoOverlapFunctionCalls ==
  /\ pc = "AwaitingModelResponse" => idx > Len(tool_calls)
  /\ \A k \in Followed :
       \A i \in 1..Len(CallsOf(k)) :
         IsFunctionCall(CallsOf(k)[i])
           <=> ExecutedAndAppended(k, CallsOf(k)[i])

C10_Witness ==
  /\ pc = "AwaitingModelResponse"
  /\ Len(sent) = 2
  /\ Len(executed) = 2
  /\ executed[1].turn = 1
  /\ executed[2].turn = 1

(***************************************************************************)
(* Vocabulary of the properties about the tools.                           *)
(***************************************************************************)
\* the string held under key in the arguments of the executed call e
ArgOf(e, key) == as_str(Index(from_str(e.arguments).v, key))

IsWriteOf(e, p) == e.name = "Write" /\ ArgOf(e, "file_path") = Some(p)
IsReadOf(e, p) == e.name = "Read" /\ ArgOf(e, "file_path") = Some(p)

\* no executed call strictly between the i-th and the j-th changes file p
Untouched(i, j, p) ==
  \A m \in (i + 1)..(j - 1) : executed[m].after[p] = executed[m].before[p]

(***************************************************************************)
(* C11.  After a successful Write of content C to path P, a Read of P in   *)
(* the same or a later turn, with no change to P in between, pushes the    *)
(* JSON string C, the very response the Write pushed.                      *)
(***************************************************************************)
C11_WriteReadRoundTrip ==
  \A i, j \in 1..Len(executed) :
    \A p \in Paths :
      (i < j /\ IsWriteOf(executed[i], p) /\ IsReadOf(executed[j], p)
       /\ Untouched(i, j, p)) =>
        /\ executed[i].after[p] = ArgOf(executed[i], "content")
        /\ executed[j].result = json(Unwrap(ArgOf(executed[i], "content")))
        /\ executed[j].result = executed[i].result

C11_Witness ==
  /\ Len(executed) = 2
  /\ IsWriteOf(executed[1], GoodPath)
  /\ executed[1].before[GoodPath] = Some(OldContent)
  /\ IsReadOf(executed[2], GoodPath)
  /\ executed[1].turn < executed[2].turn
  /\ executed[2].result = json(NewContent)

(***************************************************************************)
(* C12.  As stated: the response of a Bash call is the captured standard   *)
(* output immediately followed by the captured standard error, whatever    *)
(* the exit status, and a non-zero status does not abort the run.          *)
(***************************************************************************)
BashOutput(e) == BashRun(e.before, Unwrap(ArgOf(e, "command")))

\* the for loop is at a Bash call whose arguments hold a command
AtBashCall ==
  /\ pc = "DispatchingTools"
  /\ idx <= Len(tool_calls)
  /\ IsFunctionCall(tool_calls[idx])
  /\ tool_calls[idx].name = "Bash"
  /\ from_str(tool_calls[idx].arguments).ok
  /\ IsSome(as_str(Index(from_str(tool_calls[idx].arguments).v, "command")))

StatusDoesNotAbort ==
  AtBashCall =>
    DispatchOne(tool_calls[idx], function_responses, files, "ok").res.ok

C12_StdoutThenStderr ==
  /\ \A i \in 1..Len(executed) :
       executed[i].name = "Bash" =>
         executed[i].result =
           json(BashOutput(executed[i]).stdout \o BashOutput(executed[i]).stderr)
  /\ StatusDoesNotAbort

(***************************************************************************)
(* C12, amended: the response of a Bash call is the standard output, one   *)
(* space, then the standard error, whatever the exit status (for exit 1    *)
(* it is a single space), and a non-zero status does not abort the run.    *)
(***************************************************************************)
C12_StdoutSpaceStderr ==
  /\ \A i \in 1..Len(executed) :
       executed[i].name = "Bash" =>
         /\ executed[i].result =
              json(BashOutput(executed[i]).stdout \o " "
                   \o BashOutput(executed[i]).stderr)
         /\ executed[i].after = BashOutput(executed[i]).fs
  /\ StatusDoesNotAbort

C12_Witness ==
  \E i \in 1..Len(executed) :
    /\ executed[i].name = "Bash"
    /\ ArgOf(executed[i], "command") = Some("exit 1")
    /\ BashOutput(executed[i]).status = 1
    /\ executed[i].result = json(" ")
    /\ executed[i].turn \in Followed
    /\ \E m \in 1..Len(Gained(executed[i].turn)) :
         Gained(executed[i].turn)[m] = ToolMessage(executed[i].id, "\" \"")

(***************************************************************************)
(* C14.  A Read leaves every file as it was, and two Reads of the same     *)
(* path with no change to that file in between push the same response.     *)
(***************************************************************************)
C14_ReadIdempotent ==
  /\ \A i \in 1..Len(executed) :
       executed[i].name = "Read" => executed[i].after = executed[i].before
  /\ \A i, j \in 1..Len(executed) :
       \A p \in Paths :
         (i < j /\ IsReadOf(executed[i], p) /\ IsReadOf(executed[j], p)
          /\ executed[i].after[p] = executed[i].before[p]
          /\ Untouched(i, j, p)) =>
           executed[j].result = executed[i].result

C14_Witness ==
  /\ Len(executed) = 2
  /\ IsReadOf(executed[1], GoodPath)
  /\ IsReadOf(executed[2], GoodPath)
  /\ executed[2].result = json(OldContent)
  /\ files = InitialFiles

(***************************************************************************)
(* C13.  Every model call carries the tool declarations Read, Write, Bash  *)
(* in this order, the same model identifier and the same output-token      *)
(* limit; appending the tool responses changes the message list only.      *)
(***************************************************************************)
C13_SameToolsEveryCall ==
  /\ request = InitialRequest
  /\ Len(sent_with) = Len(sent)
  /\ \A k \in 1..Len(sent_with) :
       /\ sent_with[k] = InitialRequest
       /\ [i \in 1..Len(sent_with[k].tools) |-> sent_with[k].tools[i].name]
            = <<"Read", "Write", "Bash">>

C13_Witness ==
  /\ Len(sent_with) = 2
  /\ Len(sent[2]) > Len(sent[1])
  /\ sent_with[2].tools = sent_with[1].tools

(***************************************************************************)
(* Vocabulary of the properties about the order of execution.              *)
(***************************************************************************)
\* how many tool calls of the answer to model call k the for loop has passed
Passed(k) ==
  IF k < Len(received) THEN Len(CallsOf(k))
  ELSE Min(idx - 1, Len(CallsOf(k)))

ExecutedIn(k) ==
  LET InTurn(e) == e.turn = k
  IN SelectSeq(executed, InTurn)

Ids(calls) == [i \in 1..Len(calls) |-> calls[i].id]

\* every call starts on the files the call before it has left
OneAtATime ==
  /\ \A m \in 1..Len(executed) :
       executed[m].before =
         IF m = 1 THEN InitialFiles ELSE executed[m - 1].after
  /\ \A m \in 1..(Len(executed) - 1) :
       \A p \in Paths :
         (/\ executed[m].turn = executed[m + 1].turn
          /\ IsWriteOf(executed[m], p)
          /\ IsReadOf(executed[m + 1], p)) =>
           executed[m + 1].result = json(Unwrap(ArgOf(executed[m], "content")))

C16_EndsOnFinalText ==
  /\ (\E k \in 1..Len(received) : TextOnly(k)) => pc = "Done"
  /\ pc = "Done" => \E k \in 1..Len(received) : TextOnly(k)

(***************************************************************************)
(* C17.  Every conversation is well paired: an assistant message is        *)
(* followed by one tool message per tool call it lists, with the ids in    *)
(* the same order, and then by the next assistant message or the end;      *)
(* the assistant message of a turn lists the function tool calls of the    *)
(* answer and no other.                                                    *)
(***************************************************************************)
WellPaired(conv) ==
  /\ \A j \in 1..Len(conv) :
       conv[j].role = "assistant" =>
         LET calls == Unwrap(conv[j].tool_calls)
         IN /\ j + Len(calls) <= Len(conv)
            /\ \A i \in 1..Len(calls) :
                 /\ conv[j + i].role = "tool"
                 /\ conv[j + i].tool_call_id = calls[i].id
            /\ \A a, b \in 1..Len(calls) : calls[a].id = calls[b].id => a = b
            /\ j + Len(calls) < Len(conv) =>
                 conv[j + Len(calls) + 1].role = "assistant"
  /\ \A i \in 1..Len(conv) :
       conv[i].role = "tool" =>
         \E j \in 1..(i - 1) :
           /\ conv[j].role = "assistant"
           /\ i - j <= Len(Unwrap(conv[j].tool_calls))

C17_WellPaired ==
  /\ WellPaired(messages)
  /\ \A k \in 1..Len(sent) : WellPaired(sent[k])
  /\ \A k \in Followed :
       HasToolCalls(k) =>
         Gained(k)[1].tool_calls = Some(FunctionCallsOf(k))

C17_Witness ==
  \E k \in Followed :
    /\ Len(CallsOf(k)) = 2
    /\ ~IsFunctionCall(CallsOf(k)[1])
    /\ IsFunctionCall(CallsOf(k)[2])
    /\ Len(Gained(k)) = 2
    /\ Gained(k)[2].tool_call_id = CallsOf(k)[2].id

(***************************************************************************)
(* C18.  The conversation gains the messages of a turn only when the for   *)
(* loop has passed every tool call of the answer.  When a pass aborts the  *)
(* run, the conversation is the one last sent, nothing more happens, and   *)
(* the files are as the calls before it have left them (but for a file     *)
(* that the failing Write has truncated).                                  *)
(***************************************************************************)
\* the files as the executed calls have left them
FilesLeft ==
  IF executed = <<>> THEN InitialFiles ELSE executed[Len(executed)].after

C18_AllOrNothing ==
  /\ pc = "DispatchingTools" => messages = sent[Len(sent)]
  /\ (sent # <<>> /\ messages # sent[Len(sent)]) =>
       /\ pc = "AwaitingModelResponse"
       /\ HasToolCalls(Len(received))
       /\ Passed(Len(received)) = Len(CallsOf(Len(received)))
  /\ AbortedInDispatch =>
       /\ messages = sent[Len(sent)]
       /\ Len(sent) = Len(received)
       /\ ~ENABLED Next
       /\ Len(ExecutedIn(Len(received)))
            = Len(SelectSeq(SubSeq(tool_calls, 1, idx - 1), IsFunctionCall))
       /\ \/ files = FilesLeft
          \/ \E p \in Creatable :
               /\ tool_calls[idx].name = "Write"
               /\ files = [FilesLeft EXCEPT ![p] = Some("")]

C18_Witness ==
  /\ AbortedInDispatch
  /\ idx = 2
  /\ Len(executed) = 1
  /\ IsWriteOf(executed[1], GoodPath)
  /\ executed[1].before[GoodPath] = Some(OldContent)
  /\ files[GoodPath] = Some(NewContent)
  /\ messages = <<UserMessage(Prompt)>>

====
